---------------------------- MODULE Spec2Model ----------------------------
(***************************************************************************)
(* Model of rrs/tools/create_release.py (the YAML release importer) and of *)
(* layerindex/templatetags/paginator.py (the elided page range filter).    *)
(*                                                                         *)
(* The importer is one process per run: parse arguments and the YAML file, *)
(* validate the shape of the document, resolve the maintenance plan, then  *)
(* upsert the release and its milestones inside transaction.atomic().      *)
(* The store is the pair (releases, milestones) of committed rows; tx is   *)
(* the view of the connection while the atomic block is open.              *)
(***************************************************************************)
EXTENDS Integers, Sequences, FiniteSets, TLC

(***************************************************************************)
(* Bounds of the checked instance.                                         *)
(***************************************************************************)
MaxMilestones == 2
MaxPages == 14

(***************************************************************************)
(* YAML scalars.  safe_load yields typed scalars; the importer passes the  *)
(* plan, release and milestone names through str().                       *)
(***************************************************************************)
StrScalar(s) == <<"str", s>>
IntScalar(n) == <<"int", n>>

Digits == <<"0", "1", "2", "3", "4", "5", "6", "7", "8", "9">>

PyStr(x) == IF x[1] = "str" THEN x[2] ELSE Digits[x[2] + 1]

(***************************************************************************)
(* Input domains.                                                          *)
(***************************************************************************)
PlanScalars == {StrScalar("P1"), StrScalar("PX")}
ReleaseScalars == {StrScalar("R1")}
MilestoneScalars == {StrScalar("1"), IntScalar(1), StrScalar("M2")}
DatePairs == {<<1, 2>>, <<3, 4>>}

RelFields == <<"plan", "name", "start_date", "end_date">>
MsFields == <<"name", "start_date", "end_date">>

MsEntry(present, name, dates) ==
    [present |-> present, name |-> name,
     start_date |-> dates[1], end_date |-> dates[2]]

ValidMsEntries ==
    {MsEntry({"name", "start_date", "end_date"}, n, d) :
        n \in MilestoneScalars, d \in DatePairs}

SeqsUpTo(S, n) == UNION {[1..k -> S] : k \in 0..n}

RelData(present, plan, name, dates, mss) ==
    [present |-> present, plan |-> plan, name |-> name,
     start_date |-> dates[1], end_date |-> dates[2], milestones |-> mss]

AllRelKeys == {"plan", "name", "start_date", "end_date", "milestones"}

Doc(has_release, reldata) == [has_release |-> has_release, release |-> reldata]

BaseMs == MsEntry({"name", "start_date", "end_date"}, StrScalar("M2"), <<1, 2>>)

\* documents that pass the shape validation: every list of milestones for
\* the plan that exists, the lists of one repeated entry for the other
ValidDocs ==
    {Doc(TRUE, RelData(AllRelKeys, StrScalar("P1"), n, d, mss)) :
        n \in ReleaseScalars, d \in DatePairs,
        mss \in SeqsUpTo(ValidMsEntries, MaxMilestones)}
    \cup
    {Doc(TRUE, RelData(AllRelKeys, StrScalar("PX"), n, d, mss)) :
        n \in ReleaseScalars, d \in DatePairs,
        mss \in SeqsUpTo({BaseMs}, MaxMilestones)}
    \cup
    {Doc(TRUE, RelData(AllRelKeys \ {"milestones"}, p, n, d, <<>>)) :
        p \in PlanScalars, n \in ReleaseScalars, d \in DatePairs}

BaseRel(present, mss) ==
    RelData(present, StrScalar("P1"), StrScalar("R1"), <<3, 4>>, mss)

\* documents with a shape error: no release key, release fields missing,
\* one milestone (at any position) with a field missing
InvalidDocs ==
    {Doc(FALSE, BaseRel(AllRelKeys, <<BaseMs>>))}
    \cup
    {Doc(TRUE, BaseRel(AllRelKeys \ {f}, <<BaseMs>>)) :
        f \in {"plan", "name", "start_date", "end_date"}}
    \cup
    {Doc(TRUE, BaseRel(AllRelKeys \ {"name", "end_date"}, <<BaseMs>>))}
    \cup
    UNION {{Doc(TRUE, BaseRel(AllRelKeys,
                [j \in 1..k |->
                    IF j = bad
                    THEN MsEntry({"name", "start_date", "end_date"} \ {f},
                                 StrScalar("M2"), <<1, 2>>)
                    ELSE BaseMs])) :
              bad \in 1..k, f \in {"name", "start_date", "end_date"}} :
           k \in 1..MaxMilestones}

Docs == ValidDocs \cup InvalidDocs

Args == [yamlfile : Docs, dry_run : BOOLEAN, update : BOOLEAN]

(***************************************************************************)
(* The store.  A Release row is [id, plan, name, start_date, end_date]; a  *)
(* Milestone row is [id, release, name, start_date, end_date].             *)
(***************************************************************************)
VARIABLES
    plans,        \* names of the MaintenancePlan rows
    releases,     \* committed Release rows
    milestones,   \* committed Milestone rows
    tx,           \* [open, releases, milestones]: the connection's view
    pc,           \* position of the importer process
    args,         \* parsed command line, yamlfile already loaded
    maintplan,    \* plan resolved by the run ("" before that)
    release,      \* id of the release the run works on (0 before that)
    idx,          \* position in the milestone loop
    exitCode,     \* -1 while running, else the status passed to sys.exit
    lastLog,      \* last line given to the logger
    pre,          \* committed store when the run started
    prev,         \* [again, exitCode, pre] of the run before, when the
                  \* same command line is run again
    opLog,        \* store operations issued by the run, in order
    num_pages,    \* paginator page count
    number,       \* current page number
    is_paginator, \* whether page_obj.paginator is a Paginator
    page_pc,      \* position of the filter call
    page_range    \* value returned by the filter

importerVars == <<plans, releases, milestones, tx, pc, args, maintplan,
                  release, idx, exitCode, lastLog, pre, prev, opLog>>
pageVars == <<num_pages, number, is_paginator, page_pc, page_range>>
vars == <<plans, releases, milestones, tx, pc, args, maintplan, release, idx,
          exitCode, lastLog, pre, prev, opLog, num_pages, number, is_paginator,
          page_pc, page_range>>

Row(id, owner, name, start, end) ==
    [id |-> id, owner |-> owner, name |-> name,
     start_date |-> start, end_date |-> end]

Log(kind, field, index) == [kind |-> kind, field |-> field, index |-> index]

NoTx == [open |-> FALSE, releases |-> {}, milestones |-> {}]

Store == [releases |-> releases, milestones |-> milestones]

\* rows that exist before the importer is ever run: one release of the same
\* name under another plan, one release of another name under the same plan,
\* each with a milestone
OtherReleases == {Row(1, "P2", "R1", 1, 2), Row(2, "P1", "R0", 1, 2)}
OtherMilestones == {Row(1, 1, "1", 1, 2), Row(2, 2, "M2", 1, 2)}

(***************************************************************************)
(* Helpers of the validation stage (create_release.py, lines 68-85).       *)
(***************************************************************************)
\* position in fields of the first field that is absent, 0 when none is
FirstMissing(fields, present) ==
    IF \A k \in 1..Len(fields) : fields[k] \in present
    THEN 0
    ELSE CHOOSE k \in 1..Len(fields) :
             /\ fields[k] \notin present
             /\ \A j \in 1..(k - 1) : fields[j] \in present

\* variant: the milestone entries are not checked up front
FirstBadMilestoneSkipped(mss) == 0

\* 1-based position of the first milestone with a missing field, 0 when none
FirstBadMilestone(mss) ==
    IF \A k \in 1..Len(mss) : FirstMissing(MsFields, mss[k].present) = 0
    THEN 0
    ELSE CHOOSE k \in 1..Len(mss) :
             /\ FirstMissing(MsFields, mss[k].present) # 0
             /\ \A j \in 1..(k - 1) : FirstMissing(MsFields, mss[j].present) = 0

\* reldata.get('milestones', [])
GetMilestones(reldata) ==
    IF "milestones" \in reldata.present THEN reldata.milestones ELSE <<>>

(***************************************************************************)
(* Helpers of the upsert stage (create_release.py, lines 91-152).          *)
(***************************************************************************)
\* variant: the result of the plan lookup is not tested
PlanFoundAlways(plan_rows, plan_name) == TRUE

\* MaintenancePlan.objects.filter(name=plan_name).first() is not None
PlanFound(plan_rows, plan_name) == plan_name \in plan_rows

\* variant: lookups do not see the rows staged by the open transaction
VisibleCommitted(open, committed, staged) == committed

\* the rows the connection reads: its own staged rows inside atomic()
Visible(open, committed, staged) == IF open THEN staged ELSE committed

\* variant: the lookup filters on the name only
MatchingByName(rows, owner, name) == {r \in rows : r.name = name}

\* objects.filter(<owner>=owner, name=name)
Matching(rows, owner, name) == {r \in rows : r.owner = owner /\ r.name = name}

\* .first(): the match with the lowest primary key
First(rows) == CHOOSE r \in rows : \A q \in rows : r.id <= q.id

\* variant: an existing row is never reported as a conflict
ConflictNever(found, update) == FALSE

\* "already exists ... (use --update to update it)"
Conflict(found, update) == found # {} /\ ~update

\* primary key given to a created row
NextId(rows) ==
    IF rows = {} THEN 1
    ELSE 1 + (CHOOSE n \in {r.id : r \in rows} : \A r \in rows : r.id <= n)

\* variant: only the start date is overwritten
SetDatesStartOnly(row, start, end) == [row EXCEPT !.start_date = start]

\* obj.start_date = ...; obj.end_date = ...
SetDates(row, start, end) ==
    [row EXCEPT !.start_date = start, !.end_date = end]

\* variant: save() inserts a row instead of rewriting the existing one
SaveRowInsert(rows, row) == rows \cup {[row EXCEPT !.id = row.id + 10]}

\* obj.save(): rewrite the row with obj's primary key
SaveRow(rows, row) == {r \in rows : r.id # row.id} \cup {row}

\* objects.create(...)
CreateRow(rows, owner, name, start, end) ==
    rows \cup {Row(NextId(rows), owner, name, start, end)}

\* variant: the block commits whatever was staged, however it is left
AtomicExitCommits(raised, committed, staged) == staged

\* leaving the atomic block: roll back when an exception (SystemExit and
\* DryRunRollbackException included) passes through it, commit otherwise
AtomicExit(raised, committed, staged) == IF raised THEN committed ELSE staged

\* variant: the dry-run flag is ignored
DryRunIgnored(dry_run) == FALSE

\* if args.dry_run: raise DryRunRollbackException
DryRunRaises(dry_run) == dry_run

(***************************************************************************)
(* The importer process.                                                   *)
(***************************************************************************)
NoLog == Log("none", "", 0)

NoArgs == [yamlfile |-> Doc(FALSE, BaseRel(AllRelKeys, <<BaseMs>>)),
           dry_run |-> FALSE, update |-> FALSE]

reldata == args.yamlfile.release

NoPrev == [again |-> FALSE, exitCode |-> -1,
           pre |-> [releases |-> {}, milestones |-> {}]]

PageIdle ==
    /\ num_pages = 1
    /\ number = 1
    /\ is_paginator = TRUE
    /\ page_pc = "idle"
    /\ page_range = <<>>

Init ==
    /\ plans = {"P1", "P2"}
    /\ \/ releases = {} /\ milestones = {}
       \/ releases = OtherReleases /\ milestones = OtherMilestones
    /\ tx = NoTx
    /\ pc = "idle"
    /\ args = NoArgs
    /\ maintplan = ""
    /\ release = 0
    /\ idx = 0
    /\ exitCode = -1
    /\ lastLog = NoLog
    /\ pre = Store
    /\ prev = NoPrev
    /\ opLog = <<>>
    /\ PageIdle

\* sys.exit(code) with no transaction open
Exit(code, log) ==
    /\ pc' = "done"
    /\ exitCode' = code
    /\ lastLog' = log
    /\ maintplan' = ""
    /\ release' = 0
    /\ idx' = 0

\* leaving the atomic block and the process; raised says whether an
\* exception passed through the block
ExitAtomic(code, log, raised, ops) ==
    /\ Exit(code, log)
    /\ releases' = AtomicExit(raised, releases, tx.releases)
    /\ milestones' = AtomicExit(raised, milestones, tx.milestones)
    /\ tx' = NoTx
    /\ opLog' = opLog \o ops
               \o <<IF AtomicExit(raised, "rollback", "commit") = "commit"
                    THEN "atomic.commit" ELSE "atomic.rollback">>

\* parse_args and yaml.safe_load: a new process starts
StartRun ==
    /\ pc = "idle"
    /\ args' \in Args
    /\ pc' = "loaded"
    /\ pre' = Store
    /\ UNCHANGED <<plans, releases, milestones, tx, maintplan, release, idx,
                   exitCode, lastLog, prev, opLog>>
    /\ UNCHANGED pageVars

\* the same command line is given again after the process has exited
RunAgain ==
    /\ pc = "done"
    /\ pc' = "loaded"
    /\ prev' = [again |-> TRUE, exitCode |-> exitCode, pre |-> pre]
    /\ exitCode' = -1
    /\ lastLog' = NoLog
    /\ pre' = Store
    /\ opLog' = <<>>
    /\ UNCHANGED <<plans, releases, milestones, tx, args, maintplan, release,
                   idx>>
    /\ UNCHANGED pageVars

\* the process is gone; only the store remains
ProcessExit ==
    /\ pc = "done"
    /\ pc' = "idle"
    /\ args' = NoArgs
    /\ exitCode' = -1
    /\ lastLog' = NoLog
    /\ pre' = Store
    /\ prev' = NoPrev
    /\ opLog' = <<>>
    /\ UNCHANGED <<plans, releases, milestones, tx, maintplan, release, idx>>
    /\ UNCHANGED pageVars

\* the three shape checks
Validate ==
    /\ pc = "loaded"
    /\ IF ~args.yamlfile.has_release
       THEN Exit(1, Log("error.no_release_key", "", 0))
       ELSE IF FirstMissing(RelFields, reldata.present) # 0
       THEN Exit(1, Log("error.release_field",
                        RelFields[FirstMissing(RelFields, reldata.present)], 0))
       ELSE IF FirstBadMilestone(GetMilestones(reldata)) # 0
       THEN LET i == FirstBadMilestone(GetMilestones(reldata))
            IN Exit(1, Log("error.milestone_field",
                           MsFields[FirstMissing(MsFields,
                               GetMilestones(reldata)[i].present)], i))
       ELSE /\ pc' = "validated"
            /\ UNCHANGED <<exitCode, lastLog, maintplan, release, idx>>
    /\ UNCHANGED <<plans, releases, milestones, tx, args, pre, prev, opLog>>
    /\ UNCHANGED pageVars

\* resolve the maintenance plan by name
LookupPlan ==
    /\ pc = "validated"
    /\ LET plan_name == PyStr(reldata.plan)
       IN IF ~PlanFound(plans, plan_name)
          THEN /\ Exit(1, Log("error.no_plan", plan_name, 0))
               /\ opLog' = opLog \o <<"plan.filter", "plan.values_list">>
          ELSE /\ maintplan' = plan_name
               /\ pc' = "planned"
               /\ opLog' = opLog \o <<"plan.filter">>
               /\ UNCHANGED <<exitCode, lastLog, release, idx>>
    /\ UNCHANGED <<plans, releases, milestones, tx, args, pre, prev>>
    /\ UNCHANGED pageVars

\* with transaction.atomic():
EnterAtomic ==
    /\ pc = "planned"
    /\ tx' = [open |-> TRUE, releases |-> releases, milestones |-> milestones]
    /\ pc' = "release"
    /\ opLog' = opLog \o <<"atomic.begin">>
    /\ UNCHANGED <<plans, releases, milestones, args, maintplan, release, idx,
                   exitCode, lastLog, pre, prev>>
    /\ UNCHANGED pageVars

\* look the release up by (plan, name); fail, update or create
UpsertRelease ==
    /\ pc = "release"
    /\ LET release_name == PyStr(reldata.name)
           found == Matching(Visible(tx.open, releases, tx.releases),
                             maintplan, release_name)
       IN IF Conflict(found, args.update)
          THEN /\ ExitAtomic(1, Log("error.release_exists", release_name, 0),
                             TRUE, <<"release.filter">>)
          ELSE IF found # {}
          THEN LET existing == First(found)
               IN /\ tx' = [tx EXCEPT !.releases =
                               SaveRow(@, SetDates(existing,
                                   reldata.start_date, reldata.end_date))]
                  /\ release' = existing.id
                  /\ lastLog' = Log("info.updated_release", release_name, 0)
                  /\ opLog' = opLog \o <<"release.filter", "release.save">>
                  /\ pc' = "milestones"
                  /\ idx' = 1
                  /\ UNCHANGED <<releases, milestones, maintplan, exitCode>>
          ELSE /\ tx' = [tx EXCEPT !.releases =
                            CreateRow(@, maintplan, release_name,
                                reldata.start_date, reldata.end_date)]
               /\ release' = NextId(tx.releases)
               /\ lastLog' = Log("info.created_release", release_name, 0)
               /\ opLog' = opLog \o <<"release.filter", "release.create">>
               /\ pc' = "milestones"
               /\ idx' = 1
               /\ UNCHANGED <<releases, milestones, maintplan, exitCode>>
    /\ UNCHANGED <<plans, args, pre, prev>>
    /\ UNCHANGED pageVars

\* one iteration of "for ms in milestones"
UpsertMilestone ==
    /\ pc = "milestones"
    /\ idx <= Len(GetMilestones(reldata))
    /\ LET ms == GetMilestones(reldata)[idx]
           ms_name == PyStr(ms.name)
           found == Matching(Visible(tx.open, milestones, tx.milestones),
                             release, ms_name)
       IN IF Conflict(found, args.update)
          THEN /\ ExitAtomic(1, Log("error.milestone_exists", ms_name, idx),
                             TRUE, <<"milestone.filter">>)
          ELSE IF found # {}
          THEN LET existing_ms == First(found)
               IN /\ tx' = [tx EXCEPT !.milestones =
                               SaveRow(@, SetDates(existing_ms,
                                   ms.start_date, ms.end_date))]
                  /\ lastLog' = Log("info.updated_milestone", ms_name, idx)
                  /\ opLog' = opLog \o <<"milestone.filter", "milestone.save">>
                  /\ idx' = idx + 1
                  /\ UNCHANGED <<releases, milestones, pc, maintplan, release,
                                 exitCode>>
          ELSE /\ tx' = [tx EXCEPT !.milestones =
                            CreateRow(@, release, ms_name,
                                ms.start_date, ms.end_date)]
               /\ lastLog' = Log("info.created_milestone", ms_name, idx)
               /\ opLog' = opLog \o <<"milestone.filter", "milestone.create">>
               /\ idx' = idx + 1
               /\ UNCHANGED <<releases, milestones, pc, maintplan, release,
                              exitCode>>
    /\ UNCHANGED <<plans, args, pre, prev>>
    /\ UNCHANGED pageVars

\* end of the atomic block: dry-run rollback or commit, then sys.exit(0)
Finish ==
    /\ pc = "milestones"
    /\ idx > Len(GetMilestones(reldata))
    /\ IF DryRunRaises(args.dry_run)
       THEN ExitAtomic(0, Log("info.dry_run", "", 0), TRUE, <<>>)
       ELSE ExitAtomic(0, lastLog, FALSE, <<>>)
    /\ UNCHANGED <<plans, args, pre, prev>>
    /\ UNCHANGED pageVars

Next ==
    \/ StartRun
    \/ RunAgain
    \/ ProcessExit
    \/ Validate
    \/ LookupPlan
    \/ EnterAtomic
    \/ UpsertRelease
    \/ UpsertMilestone
    \/ Finish

Spec == Init /\ [][Next]_vars

(***************************************************************************)
(* The elided page range filter (paginator.py, lines 19-28).  The filter   *)
(* passes on_each_side=3 and on_ends=1 to the paginator, which computes    *)
(* the range as Django's Paginator.get_elided_page_range does.             *)
(***************************************************************************)
on_each_side == 3
on_ends == 1
ELLIPSIS == 0

\* list(range(a, b))
PyRange(a, b) == [k \in 1..(IF b > a THEN b - a ELSE 0) |-> a + k - 1]

\* variant: the threshold is one page short
ElideThresholdShort(side, ends) == (side + ends) * 2 - 1

\* page counts up to this value are returned whole
ElideThreshold(side, ends) == (side + ends) * 2

get_elided_page_range(pages, n, side, ends) ==
    IF pages <= ElideThreshold(side, ends)
    THEN PyRange(1, pages + 1)
    ELSE (IF n > (1 + side + ends) + 1
          THEN PyRange(1, ends + 1) \o <<ELLIPSIS>> \o PyRange(n - side, n + 1)
          ELSE PyRange(1, n + 1))
         \o
         (IF n < (pages - side - ends) - 1
          THEN PyRange(n + 1, n + side + 1) \o <<ELLIPSIS>>
               \o PyRange(pages - ends + 1, pages + 1)
          ELSE PyRange(n + 1, pages + 1))

elided_page_range(isPaginator, pages, n) ==
    IF ~isPaginator
    THEN <<>>
    ELSE get_elided_page_range(pages, n, on_each_side, on_ends)

ImporterIdle ==
    /\ plans = {"P1", "P2"}
    /\ releases = {}
    /\ milestones = {}
    /\ tx = NoTx
    /\ pc = "idle"
    /\ args = NoArgs
    /\ maintplan = ""
    /\ release = 0
    /\ idx = 0
    /\ exitCode = -1
    /\ lastLog = NoLog
    /\ pre = Store
    /\ prev = NoPrev
    /\ opLog = <<>>

InitPage ==
    /\ ImporterIdle
    /\ num_pages \in 1..MaxPages
    /\ number \in 1..num_pages
    /\ is_paginator \in BOOLEAN
    /\ page_pc = "call"
    /\ page_range = <<>>

\* {{ page_obj|elided_page_range }}
Render ==
    /\ page_pc = "call"
    /\ page_range' = elided_page_range(is_paginator, num_pages, number)
    /\ page_pc' = "returned"
    /\ UNCHANGED <<num_pages, number, is_paginator>>
    /\ UNCHANGED importerVars

NextPage == Render

SpecPage == InitPage /\ [][NextPage]_vars

(***************************************************************************)
(* Vocabulary of the properties.                                           *)
(***************************************************************************)
FilePlan == PyStr(reldata.plan)
FileRelease == PyStr(reldata.name)
FileMs == GetMilestones(reldata)
FileMsNames == {PyStr(FileMs[k].name) : k \in 1..Len(FileMs)}

\* every required key of the document is present
ValidShape ==
    /\ args.yamlfile.has_release
    /\ {"plan", "name", "start_date", "end_date"} \subseteq reldata.present
    /\ \A k \in 1..Len(FileMs) :
           {"name", "start_date", "end_date"} \subseteq FileMs[k].present

PlanExists == FilePlan \in plans

\* the document names some milestone more than once
DupNames ==
    \E j, k \in 1..Len(FileMs) :
        j < k /\ PyStr(FileMs[j].name) = PyStr(FileMs[k].name)

\* position of the first entry that repeats an earlier name
FirstRepeat ==
    CHOOSE k \in 1..Len(FileMs) :
        /\ \E j \in 1..(k - 1) : PyStr(FileMs[j].name) = PyStr(FileMs[k].name)
        /\ \A h \in 1..(k - 1) :
               \A j \in 1..(h - 1) :
                   PyStr(FileMs[j].name) # PyStr(FileMs[h].name)

\* the last entry of the document with the given name
LastEntry(n) ==
    FileMs[CHOOSE k \in 1..Len(FileMs) :
               /\ PyStr(FileMs[k].name) = n
               /\ \A j \in (k + 1)..Len(FileMs) : PyStr(FileMs[j].name) # n]

\* the releases of a store that the document identifies
Target(st) ==
    {r \in st.releases : r.owner = FilePlan /\ r.name = FileRelease}

\* the milestones of a store that the document identifies under release id
TargetMs(st, id) ==
    {m \in st.milestones : m.owner = id /\ m.name \in FileMsNames}

SameDates(row, entry) ==
    row.start_date = entry.start_date /\ row.end_date = entry.end_date

Has(log, op) == \E k \in 1..Len(log) : log[k] = op

\* after holds before plus every create/update the document asks for
FullyApplied(before, after) ==
    \E r \in after.releases :
        /\ r.owner = FilePlan
        /\ r.name = FileRelease
        /\ SameDates(r, reldata)
        /\ \A old \in Target(before) : old.id = r.id
        /\ after.releases \ {r} = before.releases \ Target(before)
        /\ \A n \in FileMsNames :
               \E m \in after.milestones :
                   m.owner = r.id /\ m.name = n /\ SameDates(m, LastEntry(n))
        /\ Cardinality(TargetMs(after, r.id)) = Cardinality(FileMsNames)
        /\ after.milestones \ TargetMs(after, r.id)
               = before.milestones \ TargetMs(before, r.id)

\* C1: every run is all-or-nothing on the store: while the process runs the
\* committed store is the store it started from, and once it has exited
\* the store is either that store or that store plus every create/update of
\* the release and of all the milestones of the file
C1_AllOrNothing ==
    pc # "idle" =>
        \/ Store = pre
        \/ pc = "done" /\ ValidShape /\ FullyApplied(pre, Store)

\* a run that exits 1 inside the milestone loop after it created the release
C1_Witness ==
    /\ pc = "done"
    /\ exitCode = 1
    /\ lastLog.kind = "error.milestone_exists"
    /\ Has(opLog, "release.create")
    /\ Has(opLog, "milestone.create")
    /\ Store = pre

\* the run now finished repeats the command line of the run before it, a
\* real run without --update of a valid file whose plan exists, and the
\* first of the two started from a store without the release
TwiceNoUpdate ==
    /\ pc = "done"
    /\ prev.again
    /\ ~args.update
    /\ ~args.dry_run
    /\ ValidShape
    /\ PlanExists
    /\ Target(prev.pre) = {}

\* C2 as stated: importing a well-formed file twice without --update exits 0
\* on the first run and 1 on the second, and the second run leaves the store
\* as the first run left it
C2_Original ==
    TwiceNoUpdate =>
        /\ prev.exitCode = 0
        /\ exitCode = 1
        /\ Store = pre

\* C2 as amended: the same, for files whose milestone names are pairwise
\* distinct after str(); the store after the first run holds the file's
\* records and the second run leaves it as it is
C2_TwiceNoUpdate ==
    (TwiceNoUpdate /\ ~DupNames) =>
        /\ prev.exitCode = 0
        /\ exitCode = 1
        /\ lastLog.kind = "error.release_exists"
        /\ Store = pre
        /\ FullyApplied(prev.pre, Store)

\* a second run of a file with two milestones that stopped on the release
C2_Witness ==
    /\ TwiceNoUpdate
    /\ ~DupNames
    /\ Len(FileMs) = 2
    /\ prev.exitCode = 0
    /\ exitCode = 1
    /\ Store = pre
    /\ Store # prev.pre

\* a finished real run with --update of a valid file whose release exists
UpdateExisting ==
    /\ pc = "done"
    /\ args.update
    /\ ~args.dry_run
    /\ ValidShape
    /\ PlanExists
    /\ Target(pre) # {}

\* C3: with --update on an existing release the run exits 0, the release
\* row and every existing milestone row named in the file keep their
\* primary key and carry the file's dates (of the last entry of that name),
\* the milestones that did not exist are created, and there is still one
\* release for the (plan, name) and at most one milestone per
\* (release, name)
C3_UpdateInPlace ==
    UpdateExisting =>
        /\ exitCode = 0
        /\ Cardinality(Target(Store)) = 1
        /\ \A old \in Target(pre) :
               /\ \E r \in releases :
                      /\ r.id = old.id
                      /\ r.owner = old.owner
                      /\ r.name = old.name
                      /\ SameDates(r, reldata)
               /\ \A om \in TargetMs(pre, old.id) :
                      \E m \in milestones :
                          /\ m.id = om.id
                          /\ m.owner = om.owner
                          /\ m.name = om.name
                          /\ SameDates(m, LastEntry(om.name))
               /\ \A n \in FileMsNames :
                      \E m \in milestones :
                          /\ m.owner = old.id
                          /\ m.name = n
                          /\ SameDates(m, LastEntry(n))
                          /\ (\A om \in TargetMs(pre, old.id) : om.name # n)
                                 => \A pm \in pre.milestones : pm.id # m.id
        /\ \A m1, m2 \in milestones :
               (m1.owner = m2.owner /\ m1.name = m2.name) => m1 = m2

\* an update that changed the dates of the release and of an existing
\* milestone and created a milestone that did not exist
C3_Witness ==
    /\ UpdateExisting
    /\ exitCode = 0
    /\ \E old \in Target(pre) :
           /\ ~SameDates(old, reldata)
           /\ \E om \in TargetMs(pre, old.id) :
                  ~SameDates(om, LastEntry(om.name))
           /\ \E n \in FileMsNames :
                  \A om \in TargetMs(pre, old.id) : om.name # n

\* a finished --dry-run run of a valid file whose plan exists
DryRunValid ==
    /\ pc = "done"
    /\ args.dry_run
    /\ ValidShape
    /\ PlanExists

\* C4 as stated: --dry-run on a valid file exits 0 and leaves the store as
\* it was, for every starting store and either value of --update
C4_Original ==
    DryRunValid => (exitCode = 0 /\ Store = pre)

\* C4 as amended: --dry-run on a valid file leaves the store as it was for
\* every starting store and either value of --update; it exits 0, except
\* that without --update it exits 1 when the release already exists or the
\* file names a milestone twice
C4_DryRun ==
    DryRunValid =>
        /\ Store = pre
        /\ exitCode = (IF ~args.update /\ (Target(pre) # {} \/ DupNames)
                       THEN 1 ELSE 0)

\* a dry run that staged a release and a milestone and exited 0
C4_Witness ==
    /\ DryRunValid
    /\ exitCode = 0
    /\ lastLog.kind = "info.dry_run"
    /\ Has(opLog, "release.create")
    /\ Has(opLog, "milestone.create")
    /\ Has(opLog, "atomic.rollback")
    /\ Store = pre

\* C5: a document with a shape error (no release key, a release field
\* missing, a field missing in a milestone at any position) never gets past
\* validation: the run issues no store operation, opens no transaction,
\* leaves the store as it was and exits 1
C5_ShapeErrors ==
    (pc # "idle" /\ ~ValidShape) =>
        /\ pc \in {"loaded", "done"}
        /\ opLog = <<>>
        /\ ~tx.open
        /\ Store = pre
        /\ pc = "done" => (exitCode = 1 /\ lastLog.kind \in
                              {"error.no_release_key", "error.release_field",
                               "error.milestone_field"})

\* a run stopped by the second milestone of the list, the first being valid
C5_Witness ==
    /\ pc = "done"
    /\ ~ValidShape
    /\ exitCode = 1
    /\ lastLog.kind = "error.milestone_field"
    /\ lastLog.index = 2
    /\ args.update

\* C6: a plan name that matches no MaintenancePlan makes the run exit 1
\* right after the plan lookup: no transaction is entered, no release or
\* milestone is looked up or written, and no plan is ever created
C6_UnknownPlan ==
    /\ plans = {"P1", "P2"}
    /\ (pc # "idle" /\ ValidShape /\ ~PlanExists) =>
           /\ pc \in {"loaded", "validated", "done"}
           /\ ~tx.open
           /\ Store = pre
           /\ pc = "done" =>
                  /\ exitCode = 1
                  /\ lastLog.kind = "error.no_plan"
                  /\ opLog = <<"plan.filter", "plan.values_list">>

\* a run that stopped on the unknown plan
C6_Witness ==
    /\ pc = "done"
    /\ ValidShape
    /\ ~PlanExists
    /\ exitCode = 1
    /\ Len(FileMs) > 0
    /\ opLog = <<"plan.filter", "plan.values_list">>

Returned == page_pc = "returned" /\ is_paginator

Elisions(rng) == {k \in 1..Len(rng) : rng[k] = ELLIPSIS}

NoAdjacentElisions(rng) ==
    \A k \in 1..(Len(rng) - 1) : ~(rng[k] = ELLIPSIS /\ rng[k + 1] = ELLIPSIS)

\* C7 as stated: with on_each_side=3 and on_ends=1, every paginator of at
\* most 2*3 + 2*1 + 1 = 9 pages gets the range 1..P without elision
\* marker, whatever the current page; and no range has two consecutive
\* markers or more than two markers
C7_Original ==
    Returned =>
        /\ num_pages <= 2 * on_each_side + 2 * on_ends + 1 =>
               /\ Elisions(page_range) = {}
               /\ page_range = PyRange(1, num_pages + 1)
        /\ NoAdjacentElisions(page_range)
        /\ Cardinality(Elisions(page_range)) <= 2

\* C7 as amended: the same with the page count limited to
\* 2*(3 + 1) = 8: a paginator of 9 pages already gets an elided range
C7_ElidedRange ==
    Returned =>
        /\ num_pages <= 2 * (on_each_side + on_ends) =>
               /\ Elisions(page_range) = {}
               /\ page_range = PyRange(1, num_pages + 1)
        /\ NoAdjacentElisions(page_range)
        /\ Cardinality(Elisions(page_range)) <= 2

\* the largest page count that is returned whole
C7_Witness ==
    /\ Returned
    /\ num_pages = 8
    /\ number = 1
    /\ page_range = <<1, 2, 3, 4, 5, 6, 7, 8>>

\* the release rows of the starting store that the document identifies
Asked == IF ValidShape THEN Target(pre) ELSE {}

\* the milestone rows of the starting store that the document identifies
AskedMs == UNION {TargetMs(pre, r.id) : r \in Asked}

Ids(rows) == {r.id : r \in rows}

\* C8: a run deletes nothing and alters nothing it was not asked about:
\* every release and milestone of the starting store still exists, and the
\* plans, the releases other than the file's (plan, name) and the
\* milestones other than (that release, a name of the file) are unchanged
C8_Frame ==
    /\ plans = {"P1", "P2"}
    /\ (pc # "idle" /\ Store # pre) =>
           /\ Ids(pre.releases) \subseteq Ids(releases)
           /\ (pre.releases \ Asked) \subseteq releases
           /\ Ids(pre.milestones) \subseteq Ids(milestones)
           /\ (pre.milestones \ AskedMs) \subseteq milestones

\* a committed update of an existing release next to rows of other releases
C8_Witness ==
    /\ pc = "done"
    /\ exitCode = 0
    /\ args.update
    /\ ~args.dry_run
    /\ Target(pre) # {}
    /\ OtherReleases \subseteq pre.releases
    /\ OtherMilestones \subseteq pre.milestones
    /\ Has(opLog, "milestone.save")
    /\ Store # pre

UniqueRows(rows) ==
    \A r1, r2 \in rows :
        (r1.id = r2.id \/ (r1.owner = r2.owner /\ r1.name = r2.name))
            => r1 = r2

\* C9: after any sequence of runs the store holds at most one release per
\* (plan, name) and at most one milestone per (release, name)
C9_Unique ==
    /\ UniqueRows(releases)
    /\ UniqueRows(milestones)

\* a committed run with --update of a file that names a milestone twice
C9_Witness ==
    /\ pc = "done"
    /\ exitCode = 0
    /\ ~args.dry_run
    /\ ValidShape
    /\ DupNames
    /\ Has(opLog, "milestone.save")
    /\ Store # pre

\* a finished run of a valid file naming a milestone twice, for a release
\* that did not exist
DupOnNewRelease ==
    /\ pc = "done"
    /\ ValidShape
    /\ PlanExists
    /\ Target(pre) = {}
    /\ DupNames

\* C10: the milestone lookup sees the rows staged by the run.  For a file
\* naming a milestone twice under a release that did not exist: without
\* --update the second occurrence is reported, the run exits 1 and nothing
\* is committed; with --update the run exits 0 and commits one milestone of
\* that name carrying the dates of its last entry.  Without --update a
\* milestone conflict is only ever reported on such a file, after the run
\* created the release itself
C10_StagedLookup ==
    /\ (DupOnNewRelease /\ ~args.update) =>
           /\ exitCode = 1
           /\ lastLog = Log("error.milestone_exists",
                            PyStr(FileMs[FirstRepeat].name), FirstRepeat)
           /\ Store = pre
    /\ (DupOnNewRelease /\ args.update /\ ~args.dry_run) =>
           /\ exitCode = 0
           /\ \E r \in releases :
                  /\ Target(Store) = {r}
                  /\ \A n \in FileMsNames :
                         \E m \in milestones :
                             /\ SameDates(m, LastEntry(n))
                             /\ {q \in milestones :
                                    q.owner = r.id /\ q.name = n} = {m}
    /\ (pc = "done" /\ lastLog.kind = "error.milestone_exists") =>
           /\ ~args.update
           /\ DupOnNewRelease
           /\ Has(opLog, "release.create")
           /\ ~Has(opLog, "release.save")

\* the conflict reported on an entry named "1" after an entry named 1
C10_Witness ==
    /\ DupOnNewRelease
    /\ ~args.update
    /\ exitCode = 1
    /\ lastLog.kind = "error.milestone_exists"
    /\ FileMs[1].name = IntScalar(1)
    /\ FileMs[lastLog.index].name = StrScalar("1")
    /\ Has(opLog, "release.create")
    /\ Store = pre

=============================================================================
